---- MODULE Spec2Model ----
(***************************************************************************)
(* GenAI PDF Table Extractor: the table normaliser (_normalize_table), the *)
(* per-page extraction loop (extract_tables), the optional Ollama cleanup  *)
(* (clean_tables_with_ollama) and the upload / result handlers             *)
(* (upload_pdf, get_result).                                               *)
(***************************************************************************)
EXTENDS Integers, Sequences, FiniteSets, TLC

VARIABLES
    raw_rows,     \* _normalize_table: the argument
    norm,         \* _normalize_table: its outcome, once it has run
    pc,           \* upload_pdf: position of the request
    is_pdf,       \* upload_pdf: file.filename.lower().endswith(".pdf")
    use_llm,      \* upload_pdf: the use_llm query flag
    saved,        \* upload_pdf: the upload was written to UPLOADS_DIR
    num_pages,    \* len(pdf.pages) of the uploaded document
    p_idx,        \* extract_tables: number of pages already processed
    found,        \* per processed page: what each strategy call returned
    extracted,    \* the list object extract_tables returned
    tables,       \* upload_pdf: the local variable `tables`
    clean_calls,  \* number of calls of clean_tables_with_ollama
    error,        \* the exception that left extract_tables, if any
    reply,        \* what the cleanup request came back with
    db,           \* the UploadRecord table
    response      \* what get_result answered

vars == <<raw_rows, norm, pc, is_pdf, use_llm, saved, num_pages, p_idx, found,
          extracted, tables, clean_calls, error, reply, db, response>>

normVars == <<raw_rows, norm>>
pipeVars == <<pc, is_pdf, use_llm, saved, num_pages, p_idx, found, extracted,
              tables, clean_calls, error, reply, db, response>>

(***************************************************************************)
(* Bounds.                                                                 *)
(***************************************************************************)
MaxRows == 2      \* rows of a raw grid handed to _normalize_table
MaxCols == 2      \* cells of one raw row
MaxPages == 2     \* pages of an uploaded document
MaxTables == 2    \* raw tables one strategy finds on one page

(***************************************************************************)
(* Python values.  A str is a sequence of characters; None is a value      *)
(* different from every str and every list.                                *)
(***************************************************************************)
None == [none |-> TRUE]
Str(s) == [str |-> s]
PyInt(n) == [int |-> n]
\* A raw row is a list of cells, or None.
List(l) == [list |-> l]

IsNone(v) == v = None
Whitespace == {" "}

RECURSIVE lstrip(_)
lstrip(s) ==
    IF s # <<>> /\ Head(s) \in Whitespace THEN lstrip(Tail(s)) ELSE s

RECURSIVE rstrip(_)
rstrip(s) ==
    IF s # <<>> /\ s[Len(s)] \in Whitespace
    THEN rstrip(SubSeq(s, 1, Len(s) - 1))
    ELSE s

\* str(c).strip() for a cell c that is a str.
strip(c) == Str(rstrip(lstrip(c.str)))

EmptyStr == Str(<<>>)

\* `cell is not None and str(cell).strip() != ""`
NonBlank(cell) == ~IsNone(cell) /\ strip(cell) # EmptyStr

\* `row and any(... for cell in row)`: a None row and an empty row are falsy.
RowHasContent(row) ==
    /\ ~IsNone(row)
    /\ row.list # <<>>
    /\ \E j \in 1..Len(row.list) : NonBlank(row.list[j])

\* Faulty variant: the first row is the header row, blank or not.
HeaderIndexFirstRow(rows, i) == IF i > Len(rows) THEN 0 ELSE i

\* The header loop: index of the first row with content, 0 when there is none.
RECURSIVE HeaderIndex(_, _)
HeaderIndex(rows, i) ==
    IF i > Len(rows) THEN 0
    ELSE IF RowHasContent(rows[i]) THEN i
    ELSE HeaderIndex(rows, i + 1)

\* `str(c).strip() if c is not None else ""`
HeaderCell(c) == IF IsNone(c) THEN EmptyStr ELSE strip(c)

\* Faulty variant: a cell with content is trimmed, as a header cell is.
CleanCellTrims(c) == IF IsNone(c) \/ strip(c) = EmptyStr THEN None ELSE strip(c)

\* `None if (c is None or str(c).strip() == "") else c`
CleanCell(c) == IF IsNone(c) \/ strip(c) = EmptyStr THEN None ELSE c

\* Faulty variant: blank cells are dropped from the row instead of kept as None.
CleanRowDropsBlank(r) == SelectSeq(r.list, NonBlank)

\* One data row; iterating a None row raises TypeError.
CleanRow(r) == [j \in 1..Len(r.list) |-> CleanCell(r.list[j])]

Raises(rows) == \E k \in 1..Len(rows) : IsNone(rows[k])

\* _normalize_table(raw_rows): the returned dict, or the exception.
NormalizeTable(rows) ==
    LET i == HeaderIndex(rows, 1)
        headers == IF i = 0 THEN <<>>
                   ELSE [j \in 1..Len(rows[i].list) |-> HeaderCell(rows[i].list[j])]
        data_rows == IF i = 0 THEN <<>> ELSE SubSeq(rows, i + 1, Len(rows))
    IN  IF Raises(data_rows)
        THEN [raised |-> "TypeError"]
        ELSE [headers |-> headers,
              rows |-> [k \in 1..Len(data_rows) |-> CleanRow(data_rows[k])]]

(***************************************************************************)
(* The normaliser on its own: every raw grid within the bounds, ragged     *)
(* ones and empty rows included.                                           *)
(***************************************************************************)
CellValues == {None, Str(<<" ">>), Str(<<"a">>), Str(<<" ", "a", " ">>)}

SeqsUpTo(S, n) == UNION {[1..m -> S] : m \in 0..n}

RawRows == {List(cells) : cells \in SeqsUpTo(CellValues, MaxCols)}
RawGrids == SeqsUpTo(RawRows, MaxRows)

Pending == [pending |-> TRUE]
Returned(r) == "headers" \in DOMAIN r

PipeIdle ==
    /\ pc = "idle"
    /\ is_pdf = FALSE
    /\ use_llm = FALSE
    /\ saved = FALSE
    /\ num_pages = 0
    /\ p_idx = 0
    /\ found = <<>>
    /\ extracted = <<>>
    /\ tables = <<>>
    /\ clean_calls = 0
    /\ error = "none"
    /\ reply = "none"
    /\ db = {}
    /\ response = [status |-> 0]

InitNorm ==
    /\ raw_rows \in RawGrids
    /\ norm = Pending
    /\ PipeIdle

Normalize ==
    /\ norm = Pending
    /\ norm' = NormalizeTable(raw_rows)
    /\ UNCHANGED <<raw_rows, pipeVars>>

NextNorm == Normalize

SpecNorm == InitNorm /\ [][NextNorm]_vars

(***************************************************************************)
(* extract_tables.  What pdfplumber finds on a page is the environment's   *)
(* choice, made when the page is read.                                     *)
(***************************************************************************)
GoodGrid == <<List(<<Str(<<"a">>), Str(<<" ">>)>>),
              List(<<Str(<<" ", "a", " ">>), None>>)>>
BlankGrid == <<List(<<None, Str(<<" ">>)>>)>>
\* A grid _normalize_table cannot iterate: a row after the header is None.
BadGrid == <<List(<<Str(<<"a">>)>>), None>>

PageGrids == {GoodGrid, BlankGrid, BadGrid}
TableLists == SeqsUpTo(PageGrids, MaxTables)

\* The dict appended for raw table number t_idx of page p.
TableDict(p, t_idx, n) ==
    [page |-> PyInt(p), table_index |-> PyInt(t_idx),
     headers |-> n.headers, rows |-> n.rows]

\* `page.extract_tables(table_settings=...) or []`, then the default
\* strategy only `if not raw_tables`.
RawTables(lines, dflt) == IF lines # <<>> THEN lines ELSE dflt.list

\* Faulty variant: table_index counted from 1.
PageTablesOneBased(p, raw_tables) ==
    [t \in 1..Len(raw_tables) |->
        TableDict(p, t, NormalizeTable(raw_tables[t]))]

\* The tables of one page, in enumerate() order.
PageTables(p, raw_tables) ==
    [t \in 1..Len(raw_tables) |->
        TableDict(p, t - 1, NormalizeTable(raw_tables[t]))]

NormalizeRaises(raw_tables) ==
    \E t \in 1..Len(raw_tables) : ~Returned(NormalizeTable(raw_tables[t]))

(***************************************************************************)
(* json.dumps / json.loads: a JSON document is a tree of tagged nodes.     *)
(***************************************************************************)
JNull == [j |-> "null"]
JNum(n) == [j |-> "number", num |-> n]
JStr(s) == [j |-> "string", chars |-> s]
JArr(a) == [j |-> "array", items |-> a]
JObj(m) == [j |-> "object", members |-> m]
\* The empty string, which is no JSON document.
NoText == [j |-> "empty"]

DumpsCell(c) == IF IsNone(c) THEN JNull ELSE JStr(c.str)
DumpsSeq(a) == JArr([i \in 1..Len(a) |-> DumpsCell(a[i])])

DumpsMember(k, v) ==
    IF k \in {"page", "table_index"} THEN JNum(v.int)
    ELSE IF k = "headers" THEN DumpsSeq(v)
    ELSE JArr([i \in 1..Len(v) |-> DumpsSeq(v[i])])

DumpsElement(e) ==
    IF "int" \in DOMAIN e THEN JNum(e.int)
    ELSE JObj([k \in DOMAIN e |-> DumpsMember(k, e[k])])

\* json.dumps(tables, ensure_ascii=False)
json_dumps(tbls) == JArr([i \in 1..Len(tbls) |-> DumpsElement(tbls[i])])

RECURSIVE json_loads(_)
json_loads(d) ==
    CASE d.j = "null" -> None
      [] d.j = "number" -> PyInt(d.num)
      [] d.j = "string" -> Str(d.chars)
      [] d.j = "array" -> [i \in 1..Len(d.items) |-> json_loads(d.items[i])]
      [] d.j = "object" -> [k \in DOMAIN d.members |-> json_loads(d.members[k])]

(***************************************************************************)
(* clean_tables_with_ollama.  The reply of the cleanup request is the      *)
(* environment's choice.                                                   *)
(***************************************************************************)
WellFormedTable ==
    [page |-> PyInt(1), table_index |-> PyInt(0),
     headers |-> <<Str(<<"a">>)>>, rows |-> <<<<Str(<<"a">>)>>>>]

\* What json.loads(text) can give when text is valid JSON.
ParsedTexts ==
    {JNull, JNum(1), JObj([page |-> JNum(1)]),
     JArr(<<>>), JArr(<<JNum(1)>>), JArr(<<JObj([page |-> JNum(1)])>>),
     json_dumps(<<WellFormedTable>>)}

\* Everything client.post / raise_for_status / resp.json / data.get /
\* json.loads can raise that is an Exception.
FailureKinds ==
    {"connect_error", "timeout", "http_status", "body_not_json",
     "body_not_object", "text_not_json"}

Replies ==
    {[kind |-> f] : f \in FailureKinds} \cup
    {[kind |-> "json", cleaned |-> d] : d \in ParsedTexts}

\* Faulty variant: a failed request yields no tables instead of the given ones.
CleanResultEmptyOnFailure(tbls, r) ==
    IF r.kind \in FailureKinds THEN <<>>
    ELSE IF r.cleaned.j = "array" THEN json_loads(r.cleaned)
    ELSE tbls

\* The value clean_tables_with_ollama(tbls) returns on reply r.
CleanResult(tbls, r) ==
    IF r.kind \in FailureKinds THEN tbls
    ELSE IF r.cleaned.j = "array" THEN json_loads(r.cleaned)
    ELSE tbls

(***************************************************************************)
(* upload_pdf and get_result.                                              *)
(***************************************************************************)
Uid == "u1"
NoResponse == [status |-> 0]

\* Faulty variant: table_count taken from the extraction, not from what is stored.
RecordCountsExtracted(tbls) ==
    [id |-> Uid, use_llm |-> use_llm, table_count |-> Len(extracted),
     result_json |-> json_dumps(tbls)]

\* UploadRecord(...); session.add(rec); session.commit()
Record(tbls) ==
    [id |-> Uid, use_llm |-> use_llm, table_count |-> Len(tbls),
     result_json |-> json_dumps(tbls)]

Init ==
    /\ raw_rows = <<>>
    /\ norm = Pending
    /\ PipeIdle

\* A request arrives: the filename check, the file saved, pdfplumber.open.
Upload ==
    /\ pc = "idle"
    /\ \E pdf \in BOOLEAN, llm \in BOOLEAN, n \in 0..MaxPages :
          /\ is_pdf' = pdf
          /\ use_llm' = llm
          /\ saved' = pdf
          /\ IF pdf
             THEN pc' = "extract" /\ num_pages' = n
             ELSE pc' = "rejected" /\ num_pages' = 0
    /\ UNCHANGED <<normVars, p_idx, found, extracted, tables, clean_calls,
                   error, reply, db, response>>

\* One turn of the page loop of extract_tables.
ExtractPage ==
    /\ pc = "extract"
    /\ p_idx < num_pages
    /\ \E lines \in TableLists :
       \E dflt \in IF lines = <<>> THEN {List(l) : l \in TableLists} ELSE {None} :
          LET raw_tables == RawTables(lines, dflt) IN
          /\ found' = Append(found, [lines |-> List(lines), dflt |-> dflt])
          /\ IF NormalizeRaises(raw_tables)
             THEN /\ pc' = "failed"
                  /\ error' = "TypeError"
                  /\ extracted' = <<>>
                  /\ p_idx' = p_idx
             ELSE /\ pc' = pc
                  /\ error' = error
                  /\ extracted' = extracted \o PageTables(p_idx + 1, raw_tables)
                  /\ p_idx' = p_idx + 1
    /\ UNCHANGED <<normVars, is_pdf, use_llm, saved, num_pages, tables, clean_calls,
                   reply, db, response>>

\* pdfplumber cannot read the document or the page.
ExtractUnreadable ==
    /\ pc = "extract"
    /\ p_idx < num_pages \/ num_pages = 0
    /\ pc' = "failed"
    /\ error' = "unreadable"
    /\ extracted' = <<>>
    /\ UNCHANGED <<normVars, is_pdf, use_llm, saved, num_pages, p_idx, found, tables,
                   clean_calls, reply, db, response>>

\* Faulty variant: `if use_llm:` without `and tables`.
ExtractReturnCleansEmpty ==
    /\ pc = "extract"
    /\ p_idx = num_pages
    /\ tables' = extracted
    /\ IF use_llm
       THEN /\ pc' = "cleaning"
            /\ clean_calls' = clean_calls + 1
            /\ db' = db
       ELSE /\ pc' = "done"
            /\ clean_calls' = clean_calls
            /\ db' = db \cup {Record(extracted)}
    /\ UNCHANGED <<normVars, is_pdf, use_llm, saved, num_pages, p_idx, found,
                   extracted, error, reply, response>>

\* extract_tables returns; upload_pdf goes on to the cleanup call or, with
\* no cleanup, to the record.
ExtractReturn ==
    /\ pc = "extract"
    /\ p_idx = num_pages
    /\ tables' = extracted
    /\ IF use_llm /\ extracted # <<>>
       THEN /\ pc' = "cleaning"
            /\ clean_calls' = clean_calls + 1
            /\ db' = db
       ELSE /\ pc' = "done"
            /\ clean_calls' = clean_calls
            /\ db' = db \cup {Record(extracted)}
    /\ UNCHANGED <<normVars, is_pdf, use_llm, saved, num_pages, p_idx, found,
                   extracted, error, reply, response>>

\* The cleanup request comes back; upload_pdf persists what
\* clean_tables_with_ollama returned.
CleanReturn ==
    /\ pc = "cleaning"
    /\ \E r \in Replies :
          LET cleaned == CleanResult(tables, r) IN
          /\ reply' = IF r.kind = "json" THEN r.cleaned.j ELSE r.kind
          /\ tables' = cleaned
          /\ db' = db \cup {Record(cleaned)}
    /\ pc' = "done"
    /\ UNCHANGED <<normVars, is_pdf, use_llm, saved, num_pages, p_idx, found,
                   extracted, clean_calls, error, response>>

\* Faulty variant: the cancellation is caught like any failure of the request.
CleanCancelledSwallowed ==
    /\ pc = "cleaning"
    /\ pc' = "done"
    /\ reply' = "cancelled"
    /\ db' = db \cup {Record(tables)}
    /\ UNCHANGED <<normVars, is_pdf, use_llm, saved, num_pages, p_idx, found,
                   extracted, tables, clean_calls, error, response>>

\* The request is cancelled while the cleanup call is suspended:
\* CancelledError is no Exception, so it leaves clean_tables_with_ollama
\* and upload_pdf.
CleanCancelled ==
    /\ pc = "cleaning"
    /\ pc' = "cancelled"
    /\ reply' = "cancelled"
    /\ UNCHANGED <<normVars, is_pdf, use_llm, saved, num_pages, p_idx, found,
                   extracted, tables, clean_calls, error, db, response>>

Ended == {"done", "failed", "rejected", "cancelled"}

\* get_result(uid) for the id of the upload, once the upload has ended.
GetResult ==
    /\ pc \in Ended
    /\ response = NoResponse
    /\ IF \E rec \in db : rec.id = Uid
       THEN LET rec == CHOOSE rec \in db : rec.id = Uid IN
            response' = [status |-> 200, id |-> rec.id, use_llm |-> rec.use_llm,
                         tables |-> IF rec.result_json # NoText
                                    THEN json_loads(rec.result_json)
                                    ELSE <<>>]
       ELSE response' = [status |-> 404]
    /\ UNCHANGED <<normVars, pc, is_pdf, use_llm, saved, num_pages, p_idx, found,
                   extracted, tables, clean_calls, error, reply, db>>

Next ==
    \/ Upload
    \/ ExtractPage
    \/ ExtractUnreadable
    \/ ExtractReturn
    \/ CleanReturn
    \/ CleanCancelled
    \/ GetResult

Spec == Init /\ [][Next]_vars

(***************************************************************************)
(* Claims about _normalize_table, checked under SpecNorm.                  *)
(***************************************************************************)
\* A cell with nothing in it: absent, or a str of whitespace only.
BlankCell(c) == IsNone(c) \/ \A n \in 1..Len(c.str) : c.str[n] \in Whitespace

\* The raw row a data row of the result came from: the result's rows are
\* the last Len(norm.rows) rows of the grid.
RawOf(k) == raw_rows[Len(raw_rows) - Len(norm.rows) + k].list

Rectangular ==
    \A a, b \in 1..Len(raw_rows) : Len(raw_rows[a].list) = Len(raw_rows[b].list)

\* C1: for a raw grid whose rows all have the same number of cells, a
\* non-empty headers has as many cells as the grid is wide and every row of
\* rows has exactly len(headers) cells.
C1_RowsMatchHeaders ==
    (Returned(norm) /\ Rectangular /\ norm.headers # <<>>) =>
        /\ Len(norm.headers) = Len(raw_rows[1].list)
        /\ \A k \in 1..Len(norm.rows) : Len(norm.rows[k]) = Len(norm.headers)

C1_Witness ==
    /\ Returned(norm)
    /\ Rectangular
    /\ Len(norm.headers) = 2
    /\ Len(norm.rows) = 1
    /\ norm.rows[1][1] = None
    /\ norm.rows[1][2] # None

\* C2 as claimed: every data cell comes out as None when absent or blank
\* and otherwise as its trimmed content.
C2_CellsTrimmed ==
    Returned(norm) =>
        \A k \in 1..Len(norm.rows) :
            /\ Len(norm.rows[k]) = Len(RawOf(k))
            /\ \A j \in 1..Len(norm.rows[k]) :
                   norm.rows[k][j] =
                       IF BlankCell(RawOf(k)[j]) THEN None ELSE strip(RawOf(k)[j])

\* C2 as amended: every data cell comes out as None when absent or blank
\* and otherwise as the very cell that went in, untrimmed; so no output
\* cell is an empty or all-whitespace string.
C2_CellsKept ==
    Returned(norm) =>
        \A k \in 1..Len(norm.rows) :
            /\ Len(norm.rows[k]) = Len(RawOf(k))
            /\ \A j \in 1..Len(norm.rows[k]) :
                   /\ norm.rows[k][j] =
                          IF BlankCell(RawOf(k)[j]) THEN None ELSE RawOf(k)[j]
                   /\ ~IsNone(norm.rows[k][j]) => ~BlankCell(norm.rows[k][j])

C2_Witness ==
    /\ Returned(norm)
    /\ Len(norm.rows) = 1
    /\ Len(norm.rows[1]) = 2
    /\ RawOf(1)[1] = Str(<<" ">>)
    /\ norm.rows[1][1] = None
    /\ norm.rows[1][2] = Str(<<" ", "a", " ">>)

\* C3: headers is the first row with a non-blank cell, each cell trimmed
\* and each absent or blank cell the empty string; rows is the rows after
\* it, in order, blank ones included; with no such row both are empty.
HasContent(i) == \E j \in 1..Len(raw_rows[i].list) : ~BlankCell(raw_rows[i].list[j])

Detected(p) ==
    IF found[p].lines.list # <<>> THEN found[p].lines.list ELSE found[p].dflt.list

RECURSIVE Before(_)
Before(p) == IF p = 1 THEN 0 ELSE Before(p - 1) + Len(Detected(p - 1))

TableFields == {"page", "table_index", "headers", "rows"}

\* C4: extract_tables emits one Table per detected raw table, and the
\* (page, table_index) pairs are (p,0),...,(p,N_p-1) for p ascending, where
\* N_p counts the lines strategy's tables or, only when there are none, the
\* default strategy's.
C4_OneTablePerRawTableInOrder ==
    pc # "failed" =>
        /\ Len(found) = p_idx
        /\ \A p \in 1..p_idx :
              found[p].lines.list # <<>> => IsNone(found[p].dflt)
        /\ Len(extracted) = Before(p_idx + 1)
        /\ \A p \in 1..p_idx : \A t \in 0..(Len(Detected(p)) - 1) :
              /\ extracted[Before(p) + t + 1].page = PyInt(p)
              /\ extracted[Before(p) + t + 1].table_index = PyInt(t)

C4_Witness ==
    /\ pc = "done"
    /\ Len(found) = 2
    /\ found[1].lines.list = <<BlankGrid, GoodGrid>>
    /\ found[2].lines.list = <<>>
    /\ found[2].dflt.list = <<GoodGrid>>
    /\ Len(extracted) = 3
    /\ extracted[1].headers = <<>>
    /\ extracted[3].page = PyInt(2)

HandledFailures == FailureKinds \cup {"null", "number", "object"}

\* C5: when the cleanup request fails (transport error, bad status, body or
\* text that is no JSON, JSON that is no array) clean_tables_with_ollama
\* raises nothing and returns the original sequence; and no outcome of the
\* call changes the list it was given.
C5_FailureReturnsOriginal ==
    /\ [](reply \in HandledFailures =>
            /\ pc = "done"
            /\ tables = extracted
            /\ db = {Record(extracted)})
    /\ [][pc = "cleaning" => extracted' = extracted]_vars

C5_Witness ==
    /\ reply = "http_status"
    /\ pc = "done"
    /\ Len(tables) = 2
    /\ tables = extracted
    /\ response = NoResponse

\* C6: every value clean_tables_with_ollama returns is the original sequence
\* or an array of objects that have the four Table fields.
C6_ReplacementIsTableArray ==
    pc = "done" =>
        \/ tables = extracted
        \/ \A i \in 1..Len(tables) : DOMAIN tables[i] = TableFields

\* C7 as claimed: when the cleanup call times out or the request is
\* cancelled during it, upload_pdf still completes with the pre-cleanup
\* sequence as its result.
C7_TimeoutOrCancelKeepsResult ==
    reply \in {"timeout", "cancelled"} =>
        /\ pc = "done"
        /\ db = {Record(extracted)}

\* C7 as amended: when the cleanup call times out, upload_pdf completes with
\* the pre-cleanup sequence as its result; when the request is cancelled
\* during the call, upload_pdf ends there and persists no record, so no
\* partial table either.
C7_TimeoutKeepsResultCancelEnds ==
    /\ reply = "timeout" =>
          /\ pc = "done"
          /\ tables = extracted
          /\ db = {Record(extracted)}
    /\ reply = "cancelled" =>
          /\ pc = "cancelled"
          /\ db = {}

C7_Witness ==
    /\ reply = "timeout"
    /\ pc = "done"
    /\ use_llm
    /\ Len(extracted) = 1
    /\ response # NoResponse
    /\ response.tables = extracted

\* C8: clean_tables_with_ollama is called at most once, and never with
\* use_llm false or an empty extraction; then the record holds exactly the
\* extract_tables output, an empty one counting 0 tables.
C8_CleanupOnlyWhenAskedAndNonEmpty ==
    /\ clean_calls <= 1
    /\ clean_calls = 1 => use_llm /\ extracted # <<>>
    /\ (pc = "done" /\ (~use_llm \/ extracted = <<>>)) =>
          /\ clean_calls = 0
          /\ Cardinality(db) = 1
          /\ \A rec \in db :
                /\ json_loads(rec.result_json) = extracted
                /\ rec.table_count = Len(extracted)

C8_Witness ==
    /\ pc = "done"
    /\ use_llm
    /\ num_pages = 2
    /\ extracted = <<>>
    /\ clean_calls = 0
    /\ \E rec \in db : rec.table_count = 0

\* The regions of the processed pages that _normalize_table can handle.
RECURSIVE WellFormedBefore(_)
WellFormedBefore(p) ==
    IF p = 1 THEN 0
    ELSE WellFormedBefore(p - 1) +
         Cardinality({t \in 1..Len(Detected(p - 1)) :
                         Returned(NormalizeTable(Detected(p - 1)[t]))})

HasMalformedRegion ==
    \E p \in 1..Len(found) : \E t \in 1..Len(Detected(p)) :
        ~Returned(NormalizeTable(Detected(p)[t]))

====
